---- MODULE Spec2Model ----
(***************************************************************************)
(* A model of the tech-news question-answering tool:                       *)
(*   vector.py    VectorStore      (the Store)                             *)
(*   web.py       TechNewsReteiver (the Retriever)                         *)
(*   pipeline.py  RAGPipeline      (the Responder)                         *)
(*   app.py       TechRAGApp       (the session shell)                     *)
(* Time is counted in whole days.  A raised exception is recorded by its   *)
(* Python class name in the *Raised variable of the component; "none"      *)
(* means the call returned normally.                                       *)
(***************************************************************************)
EXTENDS Integers, Sequences, FiniteSets, TLC

VARIABLES
    now,          \* the wall clock (datetime.now()), in days
    collection,   \* the persisted index: a sequence of indexed entries
    storeOp,      \* the last VectorStore method called
    storeArg,     \* its arguments
    storeRet,     \* its return value
    storeRaised,  \* the exception it raised to its caller, or "none"
    fetchOp,      \* the last TechNewsReteiver method called
    fetchArg,     \* its arguments and what the upstream endpoints answered
    fetchRet,     \* its return value
    fetchRaised,  \* the exception it raised to its caller, or "none"
    netLog,       \* the network requests that call made, in order
    respOp,       \* the last RAGPipeline method called
    respArg,      \* its arguments and the endpoint's outcome
    respRet,      \* its return value
    respRaised,   \* the exception it raised to its caller, or "none"
    llmCalls,     \* the number of text-generation calls that call made
    chat_history,        \* st.session_state.chat_history
    latest_updates,      \* st.session_state.latest_updates
    vector_store_ready,  \* st.session_state.vector_store_ready
    response_style,      \* st.session_state.response_style
    pc,           \* where the running TechRAGApp handler stands, or "idle"
    appOp,        \* the last TechRAGApp handler run
    appArg,       \* its inputs
    appRaised,    \* the exception it ended with, or "none"
    appCalls      \* the calls it made to the other components, in order

storeVars == <<collection, storeOp, storeArg, storeRet, storeRaised>>
fetchVars == <<fetchOp, fetchArg, fetchRet, fetchRaised, netLog>>
respVars  == <<respOp, respArg, respRet, respRaised, llmCalls>>
appVars   == <<chat_history, latest_updates, vector_store_ready, response_style,
               pc, appOp, appArg, appRaised, appCalls>>
vars == <<now, storeVars, fetchVars, respVars, appVars>>

(***************************************************************************)
(* Bounds of the model.                                                    *)
(***************************************************************************)
MaxTime  == 2   \* the clock and the timestamps range over 0..MaxTime
MaxColl  == 3   \* entries in the persisted collection at construction

Times   == 0..MaxTime
Urls    == {"u1", "u2"}
Queries == {"q1", "q2"}

\* the source tags a stored document can carry, and the source each url of
\* the model belongs to
StoreSources == {"hackernews", "reddit_programming"}
SourceOf(url) == IF url = "u1" THEN "hackernews" ELSE "reddit_programming"

(***************************************************************************)
(* Generic helpers.                                                        *)
(***************************************************************************)
SeqsUpTo(S, n) == UNION {[1..m -> S] : m \in 0..n}

Range(s) == {s[i] : i \in 1..Len(s)}

Take(s, n) == IF n <= 0 THEN <<>> ELSE SubSeq(s, 1, IF n < Len(s) THEN n ELSE Len(s))

RECURSIVE SetToSeq(_)
SetToSeq(S) ==
    IF S = {} THEN <<>>
    ELSE LET x == CHOOSE y \in S : TRUE IN <<x>> \o SetToSeq(S \ {x})

(***************************************************************************)
(* vector.py : VectorStore                                                 *)
(***************************************************************************)

\* datetime.isoformat() and datetime.fromisoformat()
Isoformat(ts) == <<"iso", ts>>
FromIsoformat(s) == s[2]

\* the attributes an instance of VectorStore has
VectorStoreMethods ==
    {"_get_or_create_collection", "add_documents", "_create_doc_id",
     "_document_exists", "similarity_search", "get_recent_documents",
     "get_documents_by_source", "get_stats", "clear_collection",
     "delete_old_documents"}

\* the names bound in the module vector.py
VectorModuleNames ==
    {"chromadb", "Settings", "hashlib", "datetime", "List", "Dict", "Any",
     "Optional", "SentenceTransformer", "np", "json", "os", "VectorStore"}

\* _create_doc_id: md5 of "<url>_<isoformat>"; md5 is taken to be free of
\* collisions on the documents of the model
_create_doc_id(url, timestamp) == <<"md5", url, "_", Isoformat(timestamp)>>

\* a Techupdate as add_documents reads it
Techupdates ==
    {[url |-> u, timestamp |-> t, source |-> SourceOf(u)] : u \in Urls, t \in Times}

\* the batches handed to add_documents: no document, one, or two that were
\* fetched at the same time (the same document twice among them)
Batches ==
    {<<>>} \cup {<<d>> : d \in Techupdates}
           \cup {b \in [1..2 -> Techupdates] : b[1].timestamp = b[2].timestamp}

\* an entry of the collection: the id and the metadata stored with it
Entry(update) ==
    [url       |-> update.url,
     timestamp |-> Isoformat(update.timestamp),
     source    |-> update.source,
     id        |-> _create_doc_id(update.url, update.timestamp)]

Ids(coll) == {coll[i].id : i \in 1..Len(coll)}

NoDuplicateIds(coll) ==
    \A i, j \in 1..Len(coll) : coll[i].id = coll[j].id => i = j

\* collection.get(ids=[doc_id]) inside _document_exists
_document_exists(coll, doc_id, getFails) ==
    IF getFails THEN FALSE ELSE doc_id \in Ids(coll)

\* collection.add(documents, metadatas, ids): the index refuses a batch
\* that repeats an id and leaves out an id it already holds
RECURSIVE AppendNew(_, _)
AppendNew(coll, entries) ==
    IF entries = <<>> THEN coll
    ELSE AppendNew(IF Head(entries).id \in Ids(coll) THEN coll
                   ELSE Append(coll, Head(entries)),
                   Tail(entries))

CollectionAdd(coll, entries, addFails) ==
    IF addFails \/ ~NoDuplicateIds(entries)
    THEN [coll |-> coll, raised |-> TRUE]
    ELSE [coll |-> AppendNew(coll, entries), raised |-> FALSE]

\* the for loop of add_documents: the entries of the updates whose id is
\* not yet in the collection
RECURSIVE NewEntries(_, _, _)
NewEntries(coll, tech_updates, getFails) ==
    IF tech_updates = <<>> THEN <<>>
    ELSE LET update == Head(tech_updates)
             doc_id == _create_doc_id(update.url, update.timestamp)
             rest   == NewEntries(coll, Tail(tech_updates), getFails)
         IN  IF _document_exists(coll, doc_id, getFails) THEN rest
             ELSE <<Entry(update)>> \o rest

\* add_documents with neither the existence check nor the index's own
\* check of the ids
add_documents_Blind(coll, tech_updates, getFails, addFails) ==
    [coll   |-> coll \o [i \in 1..Len(tech_updates) |-> Entry(tech_updates[i])],
     ret    |-> "None",
     raised |-> "none"]

\* add_documents: the collection it leaves and what it raises
add_documents(coll, tech_updates, getFails, addFails) ==
    IF tech_updates = <<>>
    THEN [coll |-> coll, ret |-> "None", raised |-> "none"]
    ELSE IF "create_doc_id" \notin VectorStoreMethods
    THEN \* self.create_doc_id, outside any try
         [coll |-> coll, ret |-> "None", raised |-> "AttributeError"]
    ELSE LET entries == NewEntries(coll, tech_updates, getFails)
         IN  IF entries = <<>>
             THEN [coll |-> coll, ret |-> "None", raised |-> "none"]
             ELSE [coll   |-> CollectionAdd(coll, entries, addFails).coll,
                   ret    |-> "None",
                   raised |-> "none"]


\* a stable ascending sort of a sequence of [key, val] records
RECURSIVE InsertByKey(_, _)
InsertByKey(p, s) ==
    IF s = <<>> THEN <<p>>
    ELSE IF p.key < Head(s).key THEN <<p>> \o s
    ELSE <<Head(s)>> \o InsertByKey(p, Tail(s))

RECURSIVE SortByKey(_)
SortByKey(s) ==
    IF s = <<>> THEN <<>>
    ELSE InsertByKey(s[Len(s)], SortByKey(SubSeq(s, 1, Len(s) - 1)))

\* the cosine distance the index computes between a query text and an
\* entry, in 0..2; a fixed table stands for the embedding model
Distance(query, entry) ==
    ((IF query = "q1" THEN 1 ELSE 2) * (IF entry.url = "u1" THEN 1 ELSE 2)
       + FromIsoformat(entry.timestamp)) % 3

\* collection.query(query_texts=[query], n_results=k): the k nearest
\* entries, nearest first, each with its distance
CollectionQuery(coll, query, k, queryFails) ==
    IF queryFails \/ k <= 0
    THEN [raised |-> TRUE, hits |-> <<>>]
    ELSE [raised |-> FALSE,
          hits   |-> Take(SortByKey([i \in 1..Len(coll) |->
                              [key |-> Distance(query, coll[i]),
                               val |-> coll[i]]]), k)]

\* the distance passed on as the score
SimilarityScore_Raw(distance) == distance

\* 'similarity_score': 1 - distance
SimilarityScore(distance) == 1 - distance

similarity_search(coll, query, k, queryFails) ==
    LET results == CollectionQuery(coll, query, k, queryFails)
    IN  IF results.raised THEN <<>>
        ELSE [i \in 1..Len(results.hits) |->
                [url              |-> results.hits[i].val.url,
                 timestamp        |-> results.hits[i].val.timestamp,
                 source           |-> results.hits[i].val.source,
                 similarity_score |-> SimilarityScore(results.hits[i].key)]]

\* get_recent_documents: newest first (a stable descending sort), cut to
\* limit
get_recent_documents(coll, limit, getFails) ==
    IF getFails \/ coll = <<>> THEN <<>>
    ELSE LET sorted == SortByKey([i \in 1..Len(coll) |->
                          [key |-> 0 - FromIsoformat(coll[i].timestamp),
                           val |-> coll[i]]])
         IN  Take([i \in 1..Len(sorted) |->
                     [url       |-> sorted[i].val.url,
                      timestamp |-> FromIsoformat(sorted[i].val.timestamp),
                      source    |-> sorted[i].val.source]],
                  limit)

\* get_documents_by_source: collection.get(where={"source": source}, limit)
get_documents_by_source(coll, source, limit, getFails) ==
    IF getFails THEN <<>>
    ELSE LET HasSource(e) == e.source = source
             results == Take(SelectSeq(coll, HasSource), limit)
         IN  [i \in 1..Len(results) |->
                [url    |-> results[i].url,
                 source |-> results[i].source]]

\* get_stats
get_stats(coll, getFails) ==
    IF getFails
    THEN [total_documents |-> 0, source_distribution |-> <<>>]
    ELSE [total_documents     |-> Len(coll),
          source_distribution |->
              [s \in {coll[i].source : i \in 1..Len(coll)} |->
                  Cardinality({i \in 1..Len(coll) : coll[i].source = s})]]

\* clear_collection: delete_collection, then create_collection; failing is
\* "none", "delete" (nothing is deleted) or "create" (the collection is
\* gone and none replaces it)
clear_collection(coll, failing) ==
    IF failing = "delete" THEN coll ELSE <<>>

\* delete_old_documents: everything is inside the try
delete_old_documents(coll, clock, days_old, getFails, deleteFails) ==
    IF "timedelta" \notin VectorModuleNames
    THEN coll   \* NameError at the cutoff date, caught and printed
    ELSE LET cutoff_date == clock - days_old
             Old(e) == FromIsoformat(e.timestamp) < cutoff_date
             Kept(e) == ~Old(e)
         IN  IF getFails THEN coll
             ELSE IF SelectSeq(coll, Old) = <<>> THEN coll
             ELSE IF deleteFails THEN coll
             ELSE SelectSeq(coll, Kept)

(***************************************************************************)
(* web.py : TechNewsReteiver                                               *)
(***************************************************************************)

\* self.sources
sources ==
    [hackernews         |-> [url  |-> "https://hnrss.org/frontpage?count=20",
                             type |-> "rss"],
     techcrunch         |-> [url  |-> "https://techcrunch.com/feed/",
                             type |-> "rss"],
     github_trending    |-> [url  |-> "https://api.github.com/search/repositories",
                             type |-> "api"],
     reddit_programming |-> [url  |-> "https://www.reddit.com/r/programming/hot.json?limit=20",
                             type |-> "api"]]

\* self.sources.keys(), in the order of the dict
SourceOrder == <<"hackernews", "techcrunch", "github_trending", "reddit_programming">>

\* the attributes an instance of TechNewsReteiver has
RetrieverMethods ==
    {"fetch_from_source", "_fetch_from_rss", "_fetch_github_trending",
     "_fetch_reddit_programming", "_clean_html", "_create_summary",
     "fetch_all_sources", "get_source_stats"}

\* what a feed answers: the parse fails, or it has entries; an entry has a
\* link and may lack a title
\* A text is a sequence of runs [kind, n]: n characters of markup ("tag"),
\* of whitespace ("space") or of anything else ("char").
TextLen(text) ==
    LET RECURSIVE Sum(_)
        Sum(i) == IF i = 0 THEN 0 ELSE text[i].n + Sum(i - 1)
    IN  Sum(Len(text))

\* neighbouring runs of one kind are one run
RECURSIVE Merge(_)
Merge(text) ==
    IF Len(text) < 2 THEN text
    ELSE LET rest == Merge(Tail(text))
         IN  IF Head(text).kind = Head(rest).kind
             THEN <<[n |-> Head(text).n + Head(rest).n, kind |-> Head(text).kind]>>
                      \o Tail(rest)
             ELSE <<Head(text)>> \o rest

\* BeautifulSoup(html, 'html.parser').get_text()
GetText(html) ==
    LET NotTag(run) == run.kind # "tag"
    IN  Merge(SelectSeq(html, NotTag))

\* re.sub(r'\s+', ' ', text).strip()
CollapseAndStrip(text) ==
    LET one == [i \in 1..Len(text) |->
                   IF text[i].kind = "space" THEN [n |-> 1, kind |-> "space"]
                   ELSE text[i]]
        left == IF one # <<>> /\ Head(one).kind = "space" THEN Tail(one) ELSE one
    IN  IF left # <<>> /\ left[Len(left)].kind = "space"
        THEN SubSeq(left, 1, Len(left) - 1) ELSE left

\* text[:n]
RECURSIVE Slice(_, _)
Slice(text, n) ==
    IF n <= 0 \/ text = <<>> THEN <<>>
    ELSE IF Head(text).n >= n THEN <<[n |-> n, kind |-> Head(text).kind]>>
    ELSE <<Head(text)>> \o Slice(Tail(text), n - Head(text).n)

\* _clean_html with no cut of the length
_clean_html_Uncut(html_content) ==
    IF html_content = <<>> THEN <<>>
    ELSE CollapseAndStrip(GetText(html_content))

\* _clean_html
_clean_html(html_content) ==
    IF html_content = <<>> THEN <<>>
    ELSE LET text == CollapseAndStrip(GetText(html_content))
         IN  IF TextLen(text) > 500
             THEN Merge(Slice(text, 500) \o <<[n |-> 3, kind |-> "char"]>>)
             ELSE text

\* the bodies the feeds of the model carry
ShortBody == <<[n |-> 10, kind |-> "char"]>>
Bodies ==
    {<<>>,
     <<[n |-> 3, kind |-> "tag"], [n |-> 10, kind |-> "char"], [n |-> 4, kind |-> "space"],
       [n |-> 5, kind |-> "char"], [n |-> 4, kind |-> "tag"]>>,
     <<[n |-> 500, kind |-> "char"]>>,
     <<[n |-> 501, kind |-> "char"]>>,
     <<[n |-> 2, kind |-> "space"], [n |-> 499, kind |-> "char"], [n |-> 600, kind |-> "space"]>>,
     <<[n |-> 300, kind |-> "char"], [n |-> 2, kind |-> "space"], [n |-> 5, kind |-> "tag"],
       [n |-> 1, kind |-> "space"], [n |-> 300, kind |-> "char"]>>}

RssEntries ==
    [link : Urls, titled : {TRUE}, summary : {ShortBody}]
        \cup {[link |-> "u1", titled |-> FALSE, summary |-> ShortBody]}
        \cup [link : {"u1"}, titled : {TRUE}, summary : Bodies]
RssFeeds ==
    {[entries |-> <<>>, failing |-> TRUE]}
        \cup [entries : SeqsUpTo(RssEntries, 2), failing : {FALSE}]

\* the feeds whose entries all carry the short body
PlainFeeds ==
    {f \in RssFeeds : \A i \in 1..Len(f.entries) : f.entries[i].summary = ShortBody}

\* what the forum endpoint answers: a status and the listed posts
RedditPosts == [pinned : BOOLEAN, created_utc : Times, permalink : {"/r/1"}]
RedditResponses == [status_code : {200, 500}, children : SeqsUpTo(RedditPosts, 2)]

\* _fetch_from_rss: the first 15 entries, stamped with the fetch time; any
\* exception (the parse, an entry without title) gives the empty list
_fetch_from_rss(source, feed, clock) ==
    IF feed.failing THEN <<>>
    ELSE LET entries == Take(feed.entries, 15)
         IN  IF \E i \in 1..Len(entries) : ~entries[i].titled THEN <<>>
             ELSE [i \in 1..Len(entries) |->
                     [url       |-> entries[i].link,
                      timestamp |-> clock,
                      source    |-> source,
                      content   |-> _clean_html(entries[i].summary)]]

\* _fetch_reddit_programming, once the response is there: the first 10
\* posts without the pinned ones, stamped with their creation time
_fetch_reddit_programming(response) ==
    IF response.status_code # 200 THEN <<>>
    ELSE LET NotPinned(post) == ~post.pinned
             posts == SelectSeq(Take(response.children, 10), NotPinned)
         IN  [i \in 1..Len(posts) |->
                [url       |-> <<"https://reddit.com", posts[i].permalink>>,
                 timestamp |-> posts[i].created_utc,
                 source    |-> "reddit_programming"]]

\* fetch_from_source with the membership test inside the try
fetch_from_source_Absorbing(source, upstream, clock) ==
    IF source \notin DOMAIN sources
    THEN [ret |-> <<>>, raised |-> "none", log |-> <<>>]
    ELSE IF sources[source].type = "rss"
    THEN [ret    |-> _fetch_from_rss(source, upstream, clock),
          raised |-> "none",
          log    |-> <<sources[source].url>>]
    ELSE [ret |-> <<>>, raised |-> "none", log |-> <<>>]

\* fetch_from_source: what it returns, what it raises and the requests it
\* makes; upstream is what the endpoint of the source answers
fetch_from_source(source, upstream, clock) ==
    IF source \notin DOMAIN sources
    THEN [ret |-> "None", raised |-> "ValueError", log |-> <<>>]
    ELSE LET source_config == sources[source]
         IN  IF source_config.type = "rss"
             THEN [ret    |-> _fetch_from_rss(source, upstream, clock),
                   raised |-> "none",
                   log    |-> <<source_config.url>>]
             ELSE IF "_fetch_from_api" \notin RetrieverMethods
             THEN \* AttributeError on self._fetch_from_api, caught by the
                  \* except of fetch_from_source before any request
                  [ret |-> <<>>, raised |-> "none", log |-> <<>>]
             ELSE \* not reached: the class has no _fetch_from_api
                  [ret |-> "None", raised |-> "none", log |-> <<>>]

\* the loop of fetch_all_sources over the sources from position i on; a
\* fetch that raises is printed and adds nothing
RECURSIVE FetchEach(_, _, _)
FetchEach(i, upstreams, clock) ==
    IF i > Len(SourceOrder) THEN [updates |-> <<>>, log |-> <<>>]
    ELSE LET source == SourceOrder[i]
             r    == fetch_from_source(source, upstreams[source], clock)
             rest == FetchEach(i + 1, upstreams, clock)
         IN  [updates |-> (IF r.raised = "none" THEN r.ret ELSE <<>>) \o rest.updates,
              log     |-> r.log \o rest.log]

\* the sort of fetch_all_sources: newest first, equal timestamps in the
\* order fetched
SortNewestFirst(updates) ==
    LET sorted == SortByKey([i \in 1..Len(updates) |->
                      [key |-> 0 - updates[i].timestamp, val |-> updates[i]]])
    IN  [i \in 1..Len(sorted) |-> sorted[i].val]

\* fetch_all_sources keeping only the updates of the source fetched last
fetch_all_sources_Overwrite(upstreams, clock) ==
    LET last == SourceOrder[Len(SourceOrder)]
        r    == fetch_from_source(last, upstreams[last], clock)
    IN  [ret    |-> SortNewestFirst(IF r.raised = "none" THEN r.ret ELSE <<>>),
         raised |-> "none",
         log    |-> FetchEach(1, upstreams, clock).log]

\* fetch_all_sources
fetch_all_sources(upstreams, clock) ==
    LET all == FetchEach(1, upstreams, clock)
    IN  [ret    |-> SortNewestFirst(all.updates),
         raised |-> "none",
         log    |-> all.log]

(***************************************************************************)
(* pipeline.py : RAGPipeline                                               *)
(***************************************************************************)

\* the two fixed messages for an empty list of documents
NoContextStructured ==
    "I don't have any recent tech updates to answer your question. Please refresh the tech updates first."
NoContextConversational ==
    "I couldn't find any recent updates to answer your question. Try refreshing the tech news."

\* the documents handed to the Responder, as similarity_search returns them
RetrievedDocs == [url : Urls, source : StoreSources]
\* up to two documents of any sources, or four of one source
DocLists ==
    SeqsUpTo(RetrievedDocs, 2)
        \cup {l \in [1..4 -> RetrievedDocs] : \A i \in 1..4 : l[i].source = "hackernews"}

\* what client.chat.completions.create does: it raises, or it answers with
\* a message whose content is a text or None
Outcomes ==
    {[kind |-> "raises", content |-> "APIError"], [kind |-> "answers", content |-> "None"],
     [kind |-> "answers", content |-> "answer"], [kind |-> "answers", content |-> " answer\n"]}

\* str.strip()
Strip(text) == IF text = " answer\n" THEN "answer" ELSE text

\* the sources of the documents, each once, in the order met
RECURSIVE SourcesInOrder(_, _)
SourcesInOrder(docs, seen) ==
    IF docs = <<>> THEN <<>>
    ELSE IF Head(docs).source \in seen THEN SourcesInOrder(Tail(docs), seen)
    ELSE <<Head(docs).source>>
             \o SourcesInOrder(Tail(docs), seen \cup {Head(docs).source})

\* _format_response_with_sources with every document of a source listed
_format_response_with_sources_All(response, retrieved_docs) ==
    LET order == SourcesInOrder(retrieved_docs, {})
        Articles(source) ==
            LET From(doc) == doc.source = source
            IN  SelectSeq(retrieved_docs, From)
    IN  [sources  |-> [i \in 1..Len(order) |->
                         [source |-> order[i],
                          links  |-> [j \in 1..Len(Articles(order[i])) |->
                                         Articles(order[i])[j].url]]],
         response |-> response]

\* _format_response_with_sources: the response, then one line for each
\* source with the links of its first 3 documents
_format_response_with_sources(response, retrieved_docs) ==
    LET order == SourcesInOrder(retrieved_docs, {})
        Articles(source) ==
            LET From(doc) == doc.source = source
            IN  SelectSeq(retrieved_docs, From)
    IN  [sources  |-> [i \in 1..Len(order) |->
                         [source |-> order[i],
                          links  |-> [j \in 1..Len(Take(Articles(order[i]), 3)) |->
                                         Articles(order[i])[j].url]]],
         response |-> response]

\* generate_response without the test for an empty list
generate_response_NoGuard(query, retrieved_docs, outcome) ==
    IF outcome.kind = "raises" \/ outcome.content = "None"
    THEN [ret    |-> [text |-> "Error generating response", kind |-> "error"],
          raised |-> "none", calls |-> 1]
    ELSE [ret    |-> [text |-> _format_response_with_sources(outcome.content,
                                                             retrieved_docs),
                      kind |-> "answer"],
          raised |-> "none", calls |-> 1]

\* generate_response (the Structured style)
generate_response(query, retrieved_docs, outcome) ==
    IF retrieved_docs = <<>>
    THEN [ret    |-> [text |-> NoContextStructured, kind |-> "no_context"],
          raised |-> "none", calls |-> 0]
    ELSE IF outcome.kind = "raises"
    THEN [ret    |-> [text |-> <<"Error generating response: ", outcome.content,
                                 ". Please check your OpenAI API key and try again.">>,
                      kind |-> "error"],
          raised |-> "none", calls |-> 1]
    ELSE IF outcome.content = "None"
    THEN \* None + str is a TypeError, raised inside the try
         [ret    |-> [text |-> <<"Error generating response: ", "TypeError",
                                 ". Please check your OpenAI API key and try again.">>,
                      kind |-> "error"],
          raised |-> "none", calls |-> 1]
    ELSE [ret    |-> [text |-> _format_response_with_sources(outcome.content,
                                                             retrieved_docs),
                      kind |-> "answer"],
          raised |-> "none", calls |-> 1]

\* generate_conversational_response without the try around the call
generate_conversational_response_Propagating(query, retrieved_docs, outcome) ==
    IF retrieved_docs = <<>>
    THEN [ret    |-> [text |-> NoContextConversational, kind |-> "no_context"],
          raised |-> "none", calls |-> 0]
    ELSE IF outcome.kind = "raises"
    THEN [ret |-> "None", raised |-> outcome.content, calls |-> 1]
    ELSE IF outcome.content = "None"
    THEN [ret |-> "None", raised |-> "AttributeError", calls |-> 1]
    ELSE [ret    |-> [text |-> Strip(outcome.content), kind |-> "answer"],
          raised |-> "none", calls |-> 1]

\* generate_conversational_response (the Conversational style)
generate_conversational_response(query, retrieved_docs, outcome) ==
    IF retrieved_docs = <<>>
    THEN [ret    |-> [text |-> NoContextConversational, kind |-> "no_context"],
          raised |-> "none", calls |-> 0]
    ELSE IF outcome.kind = "raises"
    THEN [ret    |-> [text |-> <<"Error: ", outcome.content>>, kind |-> "error"],
          raised |-> "none", calls |-> 1]
    ELSE IF outcome.content = "None"
    THEN \* None has no strip: an AttributeError, raised inside the try
         [ret    |-> [text |-> <<"Error: ", "AttributeError">>, kind |-> "error"],
          raised |-> "none", calls |-> 1]
    ELSE [ret    |-> [text |-> Strip(outcome.content), kind |-> "answer"],
          raised |-> "none", calls |-> 1]

(***************************************************************************)
(* app.py : TechRAGApp.  The retriever it holds is the class web.py        *)
(* defines.                                                                *)
(***************************************************************************)

\* the list of sources in fetch_latest_tech_news
AppSources == <<"hackernews", "techcrunch", "github_trending", "reddit_programming">>

\* the message of process_query when the store is not ready
FetchFirst == [text |-> "Please fetch latest tech updates first.", kind |-> "not_ready"]

\* "response": None
Absent == [kind |-> "None"]

\* the loop of fetch_latest_tech_news over the sources from position i on;
\* a fetch that raises is shown with st.error and adds nothing
RECURSIVE AppFetchEach(_, _, _)
AppFetchEach(i, upstreams, clock) ==
    IF i > Len(AppSources) THEN [updates |-> <<>>, calls |-> <<>>]
    ELSE LET source == AppSources[i]
             r    == fetch_from_source(source, upstreams[source], clock)
             rest == AppFetchEach(i + 1, upstreams, clock)
         IN  [updates |-> (IF r.raised = "none" THEN r.ret ELSE <<>>) \o rest.updates,
              calls   |-> <<[op |-> "fetch_from_source", arg |-> source]>> \o rest.calls]

\* fetch_latest_tech_news: the collection and the session fields it
\* leaves, what it raises and the calls it makes
fetch_latest_tech_news(coll, latest, ready, upstreams, clock, failing) ==
    LET all == AppFetchEach(1, upstreams, clock)
    IN  IF all.updates = <<>>
        THEN [coll |-> coll, latest_updates |-> latest, vector_store_ready |-> ready,
              raised |-> "none", calls |-> all.calls]
        ELSE LET r == add_documents(coll, all.updates, failing = "get", failing = "add")
                 calls == all.calls \o <<[op |-> "add_documents", arg |-> all.updates]>>
             IN  IF r.raised # "none"
                 THEN \* nothing catches it: the two assignments are not reached
                      [coll |-> r.coll, latest_updates |-> latest,
                       vector_store_ready |-> ready,
                       raised |-> r.raised, calls |-> calls]
                 ELSE [coll |-> r.coll, latest_updates |-> all.updates,
                       vector_store_ready |-> TRUE,
                       raised |-> "none", calls |-> calls]

\* process_query without the test of the ready flag
process_query_Ungated(ready, style, coll, query, queryFails, outcome) ==
    LET relevant_docs == similarity_search(coll, query, 5, queryFails)
        r == IF style = "Structured"
             THEN generate_response(query, relevant_docs, outcome)
             ELSE generate_conversational_response(query, relevant_docs, outcome)
    IN  [ret    |-> r.ret,
         raised |-> r.raised,
         calls  |-> <<[op |-> "similarity_search", arg |-> query],
                      [op  |-> IF style = "Structured" THEN "generate_response"
                               ELSE "generate_conversational_response",
                       arg |-> query]>>]

\* process_query
process_query(ready, style, coll, query, queryFails, outcome) ==
    IF ~ready
    THEN [ret |-> FetchFirst, raised |-> "none", calls |-> <<>>]
    ELSE LET relevant_docs == similarity_search(coll, query, 5, queryFails)
             r == IF style = "Structured"
                  THEN generate_response(query, relevant_docs, outcome)
                  ELSE generate_conversational_response(query, relevant_docs, outcome)
         IN  [ret    |-> r.ret,
              raised |-> r.raised,
              calls  |-> <<[op |-> "similarity_search", arg |-> query],
                           [op  |-> IF style = "Structured" THEN "generate_response"
                                    ELSE "generate_conversational_response",
                            arg |-> query]>>]

\* handle_query, first statement: chat_history.append({...})
AppendTurn(history, query, clock) ==
    Append(history, [timestamp |-> clock, query |-> query, response |-> Absent])

\* the response written into the first turn
FillResponse_First(history, response) ==
    [history EXCEPT ![1].response = response]

\* handle_query: chat_history[-1]["response"] = response
FillResponse(history, response) ==
    [history EXCEPT ![Len(history)].response = response]

(***************************************************************************)
(* The Store's operations as steps.                                        *)
(***************************************************************************)
Limits == 0..2

StoreCall(op, arg, coll, ret, raised) ==
    /\ storeOp' = op
    /\ storeArg' = arg
    /\ collection' = coll
    /\ storeRet' = ret
    /\ storeRaised' = raised
    /\ UNCHANGED <<now, fetchVars, respVars, appVars>>

AddDocuments ==
    \* the index works, or its get fails, or its add fails (when the add
    \* fails nothing is added, whatever the get did)
    \E tech_updates \in Batches, failing \in {"none", "get", "add"} :
        LET r == add_documents(collection, tech_updates,
                               failing = "get", failing = "add")
        IN  StoreCall("add_documents",
                      [tech_updates |-> tech_updates,
                       \* the call before this one was add_documents with
                       \* the same documents
                       repeated     |-> /\ storeOp = "add_documents"
                                        /\ storeArg.tech_updates = tech_updates,
                       countBefore  |-> Len(collection)],
                      r.coll, r.ret, r.raised)

SimilaritySearch ==
    \E query \in Queries, k \in 0..(MaxColl + 1), queryFails \in BOOLEAN :
        StoreCall("similarity_search",
                  [query |-> query, k |-> k, failed |-> queryFails],
                  collection,
                  similarity_search(collection, query, k, queryFails), "none")

GetRecentDocuments ==
    \E limit \in Limits, getFails \in BOOLEAN :
        StoreCall("get_recent_documents", [limit |-> limit], collection,
                  get_recent_documents(collection, limit, getFails), "none")

GetDocumentsBySource ==
    \E source \in StoreSources, limit \in Limits, getFails \in BOOLEAN :
        StoreCall("get_documents_by_source",
                  [source |-> source, limit |-> limit], collection,
                  get_documents_by_source(collection, source, limit, getFails),
                  "none")

GetStats ==
    \E getFails \in BOOLEAN :
        StoreCall("get_stats", <<>>, collection,
                  get_stats(collection, getFails), "none")

ClearCollection ==
    \E failing \in {"none", "delete", "create"} :
        StoreCall("clear_collection", [failed |-> failing # "none"],
                  clear_collection(collection, failing), "None", "none")

DeleteOldDocuments ==
    \E days_old \in 0..MaxTime, getFails, deleteFails \in BOOLEAN :
        StoreCall("delete_old_documents",
                  [clock  |-> now,
                   days_old |-> days_old,
                   failed |-> getFails \/ deleteFails,
                   before |-> collection],
                  delete_old_documents(collection, now, days_old,
                                       getFails, deleteFails),
                  "None", "none")

\* the clock advances
Tick ==
    /\ now < MaxTime
    /\ now' = now + 1
    /\ UNCHANGED <<storeVars, fetchVars, respVars, appVars>>

(***************************************************************************)
(* The state after construction.  VectorStore() opens the collection kept  *)
(* under persist_directory, which holds what earlier runs left there; the  *)
(* index keeps the ids of its entries distinct.                            *)
(***************************************************************************)
PersistedCollections ==
    {SetToSeq(S) : S \in {T \in SUBSET {Entry(u) : u \in Techupdates} :
                            /\ Cardinality(T) <= MaxColl
                            /\ \A a, b \in T : a.id = b.id => a = b}}

Init ==
    /\ now \in Times
    /\ collection \in PersistedCollections
    /\ storeOp = "init" /\ storeArg = <<>>
    /\ storeRet = "None" /\ storeRaised = "none"
    /\ fetchOp = "init" /\ fetchArg = <<>>
    /\ fetchRet = "None" /\ fetchRaised = "none" /\ netLog = <<>>
    /\ respOp = "init" /\ respArg = <<>>
    /\ respRet = "None" /\ respRaised = "none" /\ llmCalls = 0
    \* initialize_session_state
    /\ chat_history = <<>>
    /\ latest_updates = <<>>
    /\ vector_store_ready = FALSE
    /\ response_style = "Structured"
    /\ pc = "idle"
    /\ appOp = "init" /\ appArg = <<>>
    /\ appRaised = "none" /\ appCalls = <<>>

StoreNext ==
    \/ AddDocuments
    \/ SimilaritySearch
    \/ GetRecentDocuments
    \/ GetDocumentsBySource
    \/ GetStats
    \/ ClearCollection
    \/ DeleteOldDocuments
    \/ Tick

SpecStore == Init /\ [][StoreNext]_vars

(***************************************************************************)
(* The Retriever's operations as steps.                                    *)
(***************************************************************************)
SourceNames == DOMAIN sources \cup {"not-a-real-source"}

\* what the endpoint of a source would answer to a request
Upstreams(source) ==
    IF source \in {"hackernews", "techcrunch"} THEN RssFeeds
    ELSE IF source = "reddit_programming" THEN RedditResponses
    ELSE {"unused"}

\* for fetch_all_sources the forum endpoint is up and lists one post
HotPost == [status_code |-> 200,
            children |-> <<[pinned |-> FALSE, created_utc |-> 0, permalink |-> "/r/1"]>>]

RetrieverCall(op, arg, r) ==
    /\ fetchOp' = op
    /\ fetchArg' = arg
    /\ fetchRet' = r.ret
    /\ fetchRaised' = r.raised
    /\ netLog' = r.log
    /\ UNCHANGED <<now, storeVars, respVars, appVars>>

FetchFromSource ==
    \E source \in SourceNames :
        \E upstream \in Upstreams(source) :
            RetrieverCall("fetch_from_source",
                          [source |-> source, clock |-> now, upstream |-> upstream],
                          fetch_from_source(source, upstream, now))

FetchAllSources ==
    \E hn, tc \in PlainFeeds :
        LET upstreams == [hackernews         |-> hn,
                          techcrunch         |-> tc,
                          github_trending    |-> "unused",
                          reddit_programming |-> HotPost]
        IN  RetrieverCall("fetch_all_sources",
                          [clock |-> now, upstreams |-> upstreams],
                          fetch_all_sources(upstreams, now))

\* a run whose persist directory is new
InitFresh == Init /\ collection = <<>>

RetrieverNext ==
    \/ FetchFromSource
    \/ FetchAllSources
    \/ Tick

SpecRetriever == InitFresh /\ [][RetrieverNext]_vars

(***************************************************************************)
(* The Responder's operations as steps.                                    *)
(***************************************************************************)
ResponderCall(op, arg, r) ==
    /\ respOp' = op
    /\ respArg' = arg
    /\ respRet' = r.ret
    /\ respRaised' = r.raised
    /\ llmCalls' = r.calls
    /\ UNCHANGED <<now, storeVars, fetchVars, appVars>>

GenerateResponse ==
    \E query \in Queries, retrieved_docs \in DocLists, outcome \in Outcomes :
        ResponderCall("generate_response",
                      [query |-> query, retrieved_docs |-> retrieved_docs,
                       outcome |-> outcome],
                      generate_response(query, retrieved_docs, outcome))

GenerateConversationalResponse ==
    \E query \in Queries, retrieved_docs \in DocLists, outcome \in Outcomes :
        ResponderCall("generate_conversational_response",
                      [query |-> query, retrieved_docs |-> retrieved_docs,
                       outcome |-> outcome],
                      generate_conversational_response(query, retrieved_docs,
                                                       outcome))

ResponderNext ==
    \/ GenerateResponse
    \/ GenerateConversationalResponse

SpecResponder == InitFresh /\ [][ResponderNext]_vars

(***************************************************************************)
(* The session shell's handlers as steps.  One handler runs at a time.     *)
(***************************************************************************)
MaxTurns == 2   \* turns in the chat history

\* the feeds offered to a refresh: down, empty, one entry or two
AppFeeds ==
    {f \in PlainFeeds :
        \A i \in 1..Len(f.entries) :
            /\ f.entries[i].titled
            /\ f.entries[i].link = (IF i = 1 THEN "u1" ELSE "u2")}

\* fetch_latest_tech_news, run by the Refresh button, or by run() while the
\* store is not ready
FetchLatestTechNews ==
    /\ pc = "idle"
    /\ \E hn, tc \in AppFeeds, failing \in {"none", "get", "add"} :
          LET upstreams == [hackernews         |-> hn,
                            techcrunch         |-> tc,
                            github_trending    |-> "unused",
                            reddit_programming |-> HotPost]
              r == fetch_latest_tech_news(collection, latest_updates,
                                          vector_store_ready, upstreams, now, failing)
          IN  /\ collection' = r.coll
              /\ latest_updates' = r.latest_updates
              /\ vector_store_ready' = r.vector_store_ready
              /\ appOp' = "fetch_latest_tech_news"
              /\ appArg' = [upstreams |-> upstreams,
                            indexFailed |-> failing # "none"]
              /\ appRaised' = r.raised
              /\ appCalls' = r.calls
    /\ UNCHANGED <<now, storeOp, storeArg, storeRet, storeRaised, fetchVars, respVars,
                   chat_history, response_style, pc>>

\* handle_query up to the spinner: the pending turn is appended
HandleQueryAppend ==
    /\ pc = "idle"
    /\ Len(chat_history) < MaxTurns
    /\ \E query \in Queries :
          /\ chat_history' = AppendTurn(chat_history, query, now)
          /\ appOp' = "handle_query"
          /\ appArg' = [query |-> query, ready |-> vector_store_ready]
    /\ appRaised' = "none"
    /\ appCalls' = <<>>
    /\ pc' = "process_query"
    /\ UNCHANGED <<now, storeVars, fetchVars, respVars,
                   latest_updates, vector_store_ready, response_style>>

\* handle_query inside the spinner: process_query, then the response is
\* written into the last turn
HandleQueryRespond ==
    /\ pc = "process_query"
    /\ \E queryFails \in BOOLEAN, outcome \in Outcomes :
          LET r == process_query(vector_store_ready, response_style, collection,
                                 appArg.query, queryFails, outcome)
          IN  /\ appRaised' = r.raised
              /\ appCalls' = r.calls
              /\ chat_history' = IF r.raised = "none"
                                 THEN FillResponse(chat_history, r.ret)
                                 ELSE chat_history
    /\ pc' = "idle"
    /\ UNCHANGED <<now, storeVars, fetchVars, respVars,
                   latest_updates, vector_store_ready, response_style, appOp, appArg>>

\* the radio of display_tech_updates
ChooseResponseStyle ==
    /\ pc = "idle"
    /\ \E style \in {"Structured", "Conversational"} \ {response_style} :
          response_style' = style
    /\ UNCHANGED <<now, storeVars, fetchVars, respVars, chat_history, latest_updates,
                   vector_store_ready, pc, appOp, appArg, appRaised, appCalls>>

AppNext ==
    \/ FetchLatestTechNews
    \/ HandleQueryAppend
    \/ HandleQueryRespond
    \/ ChooseResponseStyle

\* the session of one day
SpecApp == InitFresh /\ [][AppNext]_vars

Next ==
    \/ StoreNext
    \/ FetchFromSource
    \/ FetchAllSources
    \/ ResponderNext
    \/ FetchLatestTechNews
    \/ HandleQueryAppend
    \/ HandleQueryRespond
    \/ ChooseResponseStyle

Spec == Init /\ [][Next]_vars

(***************************************************************************)
(* Claims about the Store.                                                 *)
(***************************************************************************)

\* C1: calling add_documents with a Document d and then again with the same
\* d leaves the entry count after the second call equal to the count after
\* the first, and d is among the entries counted.
C1_IdempotentInsert ==
    (/\ storeOp = "add_documents"
     /\ Len(storeArg.tech_updates) = 1
     /\ storeArg.repeated)
    => /\ storeRaised = "none"
       /\ Len(collection) = storeArg.countBefore
       /\ _create_doc_id(storeArg.tech_updates[1].url,
                         storeArg.tech_updates[1].timestamp) \in Ids(collection)

C3_StoreNeverRaises ==
    /\ storeRaised = "none"
    /\ (storeOp = "similarity_search" /\ storeArg.failed) => storeRet = <<>>

ScoresNonIncreasing(results) ==
    \A i, j \in 1..Len(results) :
        i < j => results[i].similarity_score >= results[j].similarity_score

\* C8 as stated: for any query and k, similarity_search returns exactly k
\* results in non-increasing score order when the index holds at least k
\* entries, and no more results than entries when it holds fewer.
C8_SearchAsStated ==
    storeOp = "similarity_search"
    => /\ Len(collection) >= storeArg.k => Len(storeRet) = storeArg.k
       /\ Len(storeRet) <= Len(collection)
       /\ ScoresNonIncreasing(storeRet)

\* C8 amended: the same, when the query of the index does not fail; when
\* it fails the result is empty.
C8_Search ==
    storeOp = "similarity_search"
    => /\ (~storeArg.failed /\ Len(collection) >= storeArg.k)
              => Len(storeRet) = storeArg.k
       /\ storeArg.failed => storeRet = <<>>
       /\ Len(storeRet) <= Len(collection)
       /\ ScoresNonIncreasing(storeRet)

\* a search with k = 3 on three entries or more returned three results of
\* different scores
C8_Witness ==
    /\ storeOp = "similarity_search"
    /\ ~storeArg.failed
    /\ storeArg.k = 3
    /\ Len(collection) >= 3
    /\ Len(storeRet) = 3
    /\ storeRet[1].similarity_score > storeRet[3].similarity_score

\* C9: after delete_old_documents(days_old) no entry is older than the
\* current time minus days_old days, and every entry that is not older is
\* still there (the index did not fail during the call).
C9_DeleteOld ==
    (storeOp = "delete_old_documents" /\ ~storeArg.failed)
    => LET cutoff == storeArg.clock - storeArg.days_old
           before == storeArg.before
       IN  /\ \A i \in 1..Len(collection) :
                  FromIsoformat(collection[i].timestamp) >= cutoff
           /\ \A i \in 1..Len(before) :
                  FromIsoformat(before[i].timestamp) >= cutoff
                  => before[i] \in Range(collection)

\* C11: after add_documents is called with any batch, every Document of the
\* batch has its identifier in the store, also when the batch holds two
\* Documents with the same (url, timestamp).
C11_BatchInserted ==
    storeOp = "add_documents"
    => /\ storeRaised = "none"
       /\ \A i \in 1..Len(storeArg.tech_updates) :
              _create_doc_id(storeArg.tech_updates[i].url,
                             storeArg.tech_updates[i].timestamp) \in Ids(collection)

(***************************************************************************)
(* Claims about the Retriever.                                             *)
(***************************************************************************)

\* C6: fetch_from_source with a source name that is not configured raises
\* the configuration error to its caller and makes no network request.
C6_UnknownSource ==
    (fetchOp = "fetch_from_source" /\ fetchArg.source \notin DOMAIN sources)
    => /\ fetchRaised = "ValueError"
       /\ netLog = <<>>

\* fetch_from_source has been called with a name that is not configured
C6_Witness ==
    /\ fetchOp = "fetch_from_source"
    /\ fetchArg.source = "not-a-real-source"
    /\ fetchRaised = "ValueError"

\* the fetch of a feed fails inside: the parse raises or an entry has no
\* title
FeedFails(feed) ==
    feed.failing \/ \E i \in 1..Len(feed.entries) : ~feed.entries[i].titled

\* C7: whichever sources fail inside, fetch_all_sources returns normally
\* and its result holds every document of each source whose fetch worked.
C7_SourceIsolation ==
    fetchOp = "fetch_all_sources"
    => /\ fetchRaised = "none"
       /\ \A source \in {"hackernews", "techcrunch"} :
             LET feed == fetchArg.upstreams[source]
             IN  ~FeedFails(feed)
                 => \A i \in 1..Len(feed.entries) :
                       \E j \in 1..Len(fetchRet) :
                           /\ fetchRet[j].url = feed.entries[i].link
                           /\ fetchRet[j].source = source
                           /\ fetchRet[j].timestamp = fetchArg.clock

\* one feed failed inside and fetch_all_sources returned the documents of
\* the other
C7_Witness ==
    /\ fetchOp = "fetch_all_sources"
    /\ FeedFails(fetchArg.upstreams["techcrunch"])
    /\ ~FeedFails(fetchArg.upstreams["hackernews"])
    /\ Len(fetchArg.upstreams["hackernews"].entries) = 2
    /\ Len(fetchRet) = 2

\* C10: for reddit_programming, when the endpoint answers successfully,
\* fetch_from_source returns one Document for each post that is not pinned
\* among the first 10 of the answer, stamped with the post's creation time.
C10_RedditFetch ==
    (/\ fetchOp = "fetch_from_source"
     /\ fetchArg.source = "reddit_programming"
     /\ fetchArg.upstream.status_code = 200)
    => /\ fetchRaised = "none"
       /\ LET NotPinned(post) == ~post.pinned
              posts == SelectSeq(Take(fetchArg.upstream.children, 10), NotPinned)
          IN  /\ Len(fetchRet) = Len(posts)
              /\ \A i \in 1..Len(posts) :
                    /\ fetchRet[i].source = "reddit_programming"
                    /\ fetchRet[i].timestamp = posts[i].created_utc

\* C15 as stated: for the feed sources every Document returned by fetch
\* has content of at most 500 characters.
C15_ContentAsStated ==
    (fetchOp = "fetch_from_source" /\ fetchArg.source \in {"hackernews", "techcrunch"})
    => \A i \in 1..Len(fetchRet) : TextLen(fetchRet[i].content) <= 500

\* C15 amended: the content is the body without markup and with single
\* spaces when that has at most 500 characters; otherwise it has 503
\* characters, its first 500 followed by "...".
C15_Content ==
    (fetchOp = "fetch_from_source" /\ fetchArg.source \in {"hackernews", "techcrunch"})
    => \A i \in 1..Len(fetchRet) :
          LET content == fetchRet[i].content
              body == fetchArg.upstream.entries[i].summary
              Chars(text) ==
                  LET IsChar(run) == run.kind = "char"
                  IN  TextLen(SelectSeq(text, IsChar))
          IN  /\ TextLen(content) <= 503
              /\ \A j \in 1..Len(content) :
                     /\ content[j].kind # "tag"
                     /\ content[j].kind = "space" => content[j].n = 1
              /\ TextLen(content) <= 500 => Chars(content) = Chars(body)
              /\ TextLen(content) > 500 => TextLen(content) = 503

\* a feed entry with a long body came back with 503 characters
C15_Witness ==
    /\ fetchOp = "fetch_from_source"
    /\ fetchArg.source = "techcrunch"
    /\ Len(fetchRet) = 2
    /\ TextLen(fetchRet[2].content) = 503
    /\ Len(fetchRet[2].content) > 1
    /\ TextLen(fetchRet[1].content) = 16

(***************************************************************************)
(* Claims about the session shell.                                         *)
(***************************************************************************)

\* some feed of the refresh gave documents
SomeFetched(upstreams) ==
    \E source \in {"hackernews", "techcrunch"} :
        ~FeedFails(upstreams[source]) /\ upstreams[source].entries # <<>>

\* C12: when a refresh (fetch_latest_tech_news) that fetches documents has
\* finished, the Retriever has been called for each of the four configured
\* sources, the fetched documents have been forwarded to the Store, and
\* vector_store_ready is true.
C12_Refresh ==
    (appOp = "fetch_latest_tech_news" /\ SomeFetched(appArg.upstreams))
    => /\ appRaised = "none"
       /\ \A source \in DOMAIN sources :
             \E i \in 1..Len(appCalls) :
                 appCalls[i] = [op |-> "fetch_from_source", arg |-> source]
       /\ \E i \in 1..Len(appCalls) : appCalls[i].op = "add_documents"
       /\ vector_store_ready

\* C13: a query processed while vector_store_ready is false calls neither
\* the Store's search nor the Responder and is answered with the fixed
\* message; search and the Responder are called only when the flag is true.
C13_ReadyGate ==
    (appOp = "handle_query" /\ pc = "idle")
    => /\ ~appArg.ready
            => /\ appCalls = <<>>
               /\ chat_history[Len(chat_history)].response = FetchFirst
       /\ appCalls # <<>> => appArg.ready

\* a query has been processed while the flag was false
C13_Witness ==
    /\ appOp = "handle_query"
    /\ pc = "idle"
    /\ ~appArg.ready
    /\ ~vector_store_ready
    /\ chat_history[Len(chat_history)].response = FetchFirst

\* every turn has a response, except the last one while its query is being
\* processed
TurnsAnswered ==
    /\ \A i \in 1..(Len(chat_history) - 1) : chat_history[i].response # Absent
    /\ pc = "idle"
          => \A i \in 1..Len(chat_history) : chat_history[i].response # Absent
    /\ pc = "process_query"
          => /\ chat_history # <<>>
             /\ chat_history[Len(chat_history)].response = Absent

\* a step appends at most one turn, a pending one, and leaves every
\* earlier turn as it was, but for the response of a pending turn
TurnsKept ==
    /\ Len(chat_history') \in {Len(chat_history), Len(chat_history) + 1}
    /\ Len(chat_history') = Len(chat_history) + 1
          => /\ pc = "idle"
             /\ chat_history'[Len(chat_history')].response = Absent
    /\ \A i \in 1..Len(chat_history) :
          /\ chat_history'[i].query = chat_history[i].query
          /\ chat_history'[i].timestamp = chat_history[i].timestamp
          /\ chat_history[i].response # Absent => chat_history'[i] = chat_history[i]

C4_EmptyContext ==
    (respOp \in {"generate_response", "generate_conversational_response"}
        /\ respArg.retrieved_docs = <<>>)
    => /\ respRaised = "none"
       /\ llmCalls = 0
       /\ respRet.kind = "no_context"
       /\ respRet.text = (IF respOp = "generate_response"
                          THEN NoContextStructured ELSE NoContextConversational)

\* generate_response has answered an empty list of documents while the
\* endpoint was ready to answer
C4_Witness ==
    /\ respOp = "generate_response"
    /\ respArg.retrieved_docs = <<>>
    /\ respArg.outcome.kind = "answers"
    /\ respRet.kind = "no_context"

\* C5: for every query, every list of retrieved documents that is not
\* empty and either style, if the call to the text-generation endpoint
\* fails the operation returns an inline error text and raises nothing.
C5_AlwaysText ==
    (/\ respOp \in {"generate_response", "generate_conversational_response"}
     /\ respArg.retrieved_docs # <<>>
     /\ respArg.outcome.kind = "raises")
    => /\ respRaised = "none"
       /\ respRet.kind = "error"

\* the endpoint has raised during a Conversational answer on two documents
C5_Witness ==
    /\ respOp = "generate_conversational_response"
    /\ Len(respArg.retrieved_docs) = 2
    /\ respArg.outcome.kind = "raises"
    /\ llmCalls = 1
    /\ respRet.kind = "error"

\* a Structured answer whose generation call succeeded
StructuredAnswer ==
    /\ respOp = "generate_response"
    /\ respArg.retrieved_docs # <<>>
    /\ respArg.outcome.kind = "answers"
    /\ respArg.outcome.content # "None"

\* the footer has exactly one line for each source of the documents
OneLinePerSource ==
    LET footer == respRet.text.sources
        docs   == respArg.retrieved_docs
    IN  /\ {footer[i].source : i \in 1..Len(footer)}
              = {docs[i].source : i \in 1..Len(docs)}
        /\ \A i, j \in 1..Len(footer) : footer[i].source = footer[j].source => i = j

\* C16 as stated: on the Structured style with a successful generation
\* call the returned text is the raw output followed by a footer with
\* exactly one line for each distinct source of the retrieved documents,
\* each line with at most 3 links, and no link twice in the footer.
C16_FooterAsStated ==
    StructuredAnswer
    => /\ respRet.kind = "answer"
       /\ respRet.text.response = respArg.outcome.content
       /\ OneLinePerSource
       /\ LET footer == respRet.text.sources
          IN  /\ \A i \in 1..Len(footer) : Len(footer[i].links) <= 3
              /\ \A i, k \in 1..Len(footer) :
                     \A j \in 1..Len(footer[i].links), m \in 1..Len(footer[k].links) :
                         footer[i].links[j] = footer[k].links[m] => (i = k /\ j = m)

\* C16 amended: the footer has exactly one line for each distinct source,
\* and the line of a source lists the links of the first 3 retrieved
\* documents of that source, in their order, a link once for each of them.
C16_Footer ==
    StructuredAnswer
    => /\ respRet.kind = "answer"
       /\ respRet.text.response = respArg.outcome.content
       /\ OneLinePerSource
       /\ LET footer == respRet.text.sources
              docs   == respArg.retrieved_docs
              Of(source) == {i \in 1..Len(docs) : docs[i].source = source}
              \* the place in docs of the j-th document of the source
              Place(source, j) ==
                  CHOOSE i \in Of(source) :
                      Cardinality({h \in Of(source) : h < i}) = j - 1
          IN  \A i \in 1..Len(footer) :
                  /\ Len(footer[i].links) <= 3
                  /\ Len(footer[i].links) <= Cardinality(Of(footer[i].source))
                  /\ Len(footer[i].links) < 3
                        => Len(footer[i].links) = Cardinality(Of(footer[i].source))
                  /\ \A j \in 1..Len(footer[i].links) :
                         footer[i].links[j] = docs[Place(footer[i].source, j)].url

\* four documents of one source were answered with a line of 3 links
\* after the unstripped output
C16_Witness ==
    /\ StructuredAnswer
    /\ Len(respArg.retrieved_docs) = 4
    /\ respArg.outcome.content = " answer\n"
    /\ respRet.text.response = " answer\n"
    /\ Len(respRet.text.sources) = 1
    /\ Len(respRet.text.sources[1].links) = 3
    /\ respRet.text.sources[1].links = <<"u1", "u2", "u1">>

====
